---- MODULE Spec2Model ----
(***************************************************************************)
(* A model of wh3_db_to_lua/tsv_to_lua.py: the conversion of RPFM .tsv     *)
(* table dumps into Lua table literals.                                    *)
(*                                                                         *)
(* Text is modelled as a sequence of one-character strings, so that the    *)
(* regular expressions, str.split, str.strip, sorted() and the number      *)
(* formatting of the source are computed character by character.           *)
(***************************************************************************)
EXTENDS Integers, Sequences, FiniteSets, TLC

VARIABLES
    \* ---- the batch (execute / _convert_all_files / _remove_source_files)
    files,          \* execute(files, ...): the batch, a sequence of file ids
    should_replace, \* execute(..., should_replace, ...)
    add_return,     \* execute(..., add_return, ...)
    map_columns,    \* execute(..., map_columns, ...)
    calculate_md5,  \* execute(..., calculate_md5)
    schema,         \* the value of _get_rpfm_db_schema()
    pc,             \* position of execute
    cur,            \* index in files of the loop that is running
    artifacts,      \* destination directory: file id -> text written
    sources,        \* the source files that still exist
    error,          \* the exception that ended execute, or NoError
    \* ---- the pure functions, applied to drawn inputs
    op,             \* which function the inputs below are for
    arg,            \* the inputs drawn
    res             \* the result once the function was applied, or Pending

vars == <<files, should_replace, add_return, map_columns, calculate_md5, schema,
          pc, cur, artifacts, sources, error, op, arg, res>>

batchVars == <<files, should_replace, add_return, map_columns, calculate_md5,
               schema, pc, cur, artifacts, sources, error>>

pureVars == <<op, arg, res>>

-----------------------------------------------------------------------------
(* Text *)

\* The characters of the model in increasing code point order: Python
\* compares str values code point by code point.
Ascii == <<"\t", "\n", " ", "\"", "#", "(", ")", ",", "-", ".",
           "0", "1", "2", "3", "4", "5", "6", "7", "8", "9",
           ";", "=", "A", "[", "]", "_",
           "a", "b", "c", "d", "e", "f", "h", "i", "k", "l", "m", "n", "o", "r",
           "s", "t", "u",
           "{", "}">>

Ord(c) == CHOOSE i \in 1..Len(Ascii) : Ascii[i] = c

Digits == {"0", "1", "2", "3", "4", "5", "6", "7", "8", "9"}

RECURSIVE Str(_)
\* The characters of s as one string value.
Str(s) == IF s = <<>> THEN "" ELSE Head(s) \o Str(Tail(s))

RECURSIVE Join(_, _)
\* delim.join(parts)
Join(delim, parts) ==
    IF parts = <<>> THEN <<>>
    ELSE IF Len(parts) = 1 THEN parts[1]
    ELSE parts[1] \o delim \o Join(delim, Tail(parts))

RECURSIVE Split(_, _)
\* s.split(sep) for a one-character sep: always at least one part
Split(s, sep) ==
    IF \A i \in 1..Len(s) : s[i] # sep THEN <<s>>
    ELSE LET k == CHOOSE i \in 1..Len(s) :
                      s[i] = sep /\ \A j \in 1..(i - 1) : s[j] # sep
         IN  <<SubSeq(s, 1, k - 1)>> \o Split(SubSeq(s, k + 1, Len(s)), sep)

RECURSIVE StrLess(_, _)
\* a < b on str
StrLess(a, b) ==
    IF b = <<>> THEN FALSE
    ELSE IF a = <<>> THEN TRUE
    ELSE IF Head(a) # Head(b) THEN Ord(Head(a)) < Ord(Head(b))
    ELSE StrLess(Tail(a), Tail(b))

RECURSIVE Insert(_, _)
Insert(x, s) ==
    IF s = <<>> THEN <<x>>
    ELSE IF StrLess(x, Head(s)) THEN <<x>> \o s
    ELSE <<Head(s)>> \o Insert(x, Tail(s))

RECURSIVE Sorted(_)
\* sorted(s) for a list of str
Sorted(s) == IF s = <<>> THEN <<>> ELSE Insert(Head(s), Sorted(Tail(s)))

RECURSIVE IntStr(_)
\* str(n) for an int n >= 0
IntStr(n) ==
    IF n < 10 THEN <<Ascii[Ord("0") + n]>>
    ELSE IntStr(n \div 10) \o <<Ascii[Ord("0") + (n % 10)]>>

AllDigits(s) == \A i \in 1..Len(s) : s[i] \in Digits

AllZeros(s) == \A i \in 1..Len(s) : s[i] = "0"

RECURSIVE StripLeadingZeros(_)
StripLeadingZeros(s) ==
    IF s # <<>> /\ Head(s) = "0" THEN StripLeadingZeros(Tail(s)) ELSE s

RECURSIVE StripTrailingZeros(_)
StripTrailingZeros(s) ==
    IF s # <<>> /\ s[Len(s)] = "0"
    THEN StripTrailingZeros(SubSeq(s, 1, Len(s) - 1)) ELSE s

-----------------------------------------------------------------------------
(* The patterns of the heuristic typing *)

\* -?[\d]+ : an optional sign and at least one digit
IsSignedDigits(s) ==
    LET d == IF s # <<>> /\ Head(s) = "-" THEN Tail(s) ELSE s
    IN  d # <<>> /\ AllDigits(d)

is_int(v) == IsSignedDigits(v)

is_float(v) ==
    \E k \in 1..Len(v) :
        /\ v[k] = "."
        /\ IsSignedDigits(SubSeq(v, 1, k - 1))
        /\ SubSeq(v, k + 1, Len(v)) # <<>>
        /\ AllDigits(SubSeq(v, k + 1, Len(v)))

is_boolean(v) == v = <<"t", "r", "u", "e">> \/ v = <<"f", "a", "l", "s", "e">>

DotAt(v) == CHOOSE k \in 1..Len(v) : v[k] = "."

\* match.group('int') and match.group('fraction') of an is_float match
GroupInt(v) == SubSeq(v, 1, DotAt(v) - 1)

GroupFraction(v) == SubSeq(v, DotAt(v) + 1, Len(v))

str_val(v) == <<"[", "=", "[">> \o v \o <<"]", "=", "]">>

-----------------------------------------------------------------------------
(* Numbers *)

Sign(v) == IF v # <<>> /\ Head(v) = "-" THEN <<"-">> ELSE <<>>

\* The digits before and after the point of a decimal text (is_int or
\* is_float), without the sign.
Unsign(v) == IF v # <<>> /\ Head(v) = "-" THEN Tail(v) ELSE v

BeforePoint(u) == IF "." \in {u[i] : i \in 1..Len(u)} THEN SubSeq(u, 1, DotAt(u) - 1) ELSE u

IntDigits(v) == BeforePoint(Unsign(v))

FracDigits(v) == IF is_float(v) THEN GroupFraction(v) ELSE <<>>

TwoDigits(n) == IF n < 10 THEN <<"0">> \o IntStr(n) ELSE IntStr(n)

\* str(float(v)) for a decimal text v of at most 15 significant digits (the
\* double nearest to such a decimal prints back as that decimal): repr is
\* positional while the decimal exponent is in -4..16, else scientific.
\* ip: the digits before the point without leading zeros; fp: the digits
\* after it without trailing zeros.
Positional(sign, ip, fp) ==
    sign \o (IF ip = <<>> THEN <<"0">> ELSE ip) \o <<".">>
         \o (IF fp = <<>> THEN <<"0">> ELSE fp)

\* sg: the significant digits; e: the exponent, negated
Scientific(sign, sg, e) ==
    sign \o <<Head(sg)>> \o (IF Len(sg) > 1 THEN <<".">> \o Tail(sg) ELSE <<>>)
         \o <<"e", "-">> \o TwoDigits(e)

FormatFloat(sign, ip, fp, sg) ==
    IF ip # <<>> \/ fp = <<>> \/ Len(fp) - Len(sg) <= 3
    THEN Positional(sign, ip, fp)
    ELSE Scientific(sign, sg, Len(fp) - Len(sg) + 1)

PyFloatStr(v) ==
    FormatFloat(Sign(v), StripLeadingZeros(IntDigits(v)),
                StripTrailingZeros(FracDigits(v)),
                StripLeadingZeros(StripTrailingZeros(FracDigits(v))))

\* str(int(f)) for f = float(v) with a zero fraction: int() drops the sign of
\* a zero
FormatInt(sign, ip) == IF ip = <<>> THEN <<"0">> ELSE sign \o ip

PyIntStr(v) == FormatInt(Sign(v), StripLeadingZeros(IntDigits(v)))

\* float(v) raises ValueError. The model reads the decimal texts (is_int,
\* is_float); the other texts it hands to float() are texts float() rejects
\* (no exponent form, no bare point, no inf or nan, no blanks).
FloatRaises(v) == ~(is_int(v) \/ is_float(v))

\* f = float(v); i = int(f); i if i == f else f, as str() prints it
_get_shortest_repr_without_trailing_zeros(v) ==
    IF AllZeros(FracDigits(v)) THEN PyIntStr(v) ELSE PyFloatStr(v)

_get_shortest_number_repr(v) ==
    IF AllZeros(GroupFraction(v)) THEN GroupInt(v) ELSE PyFloatStr(v)

-----------------------------------------------------------------------------
(* LEGACY: the heuristic typing of a field *)

\* The heuristic typing without the rule for the first field.
BuildValueLegacyNoFirstField(value, pos, column) ==
    IF is_boolean(value) THEN value
    ELSE IF is_int(value) THEN value
    ELSE IF is_float(value) THEN _get_shortest_number_repr(value)
    ELSE str_val(value)

_build_value_legacy(value, pos, column) ==
    IF pos = 1 THEN str_val(value)
    ELSE IF is_boolean(value) THEN value
    ELSE IF is_int(value) THEN value
    ELSE IF is_float(value) THEN _get_shortest_number_repr(value)
    ELSE str_val(value)

-----------------------------------------------------------------------------
(* Dump tsv field using the db schema *)

\* A Python dict is a record: d.get(k) reads DOMAIN d.
Has(d, k) == k \in DOMAIN d

to_lua_bool(v) == v

to_lua_str(v) == str_val(v)

to_lua_num(v) == _get_shortest_repr_without_trailing_zeros(v)

\* RUST_TYPE_TO_LUA, as the name of the converter of each type tag
RUST_TYPE_TO_LUA ==
    [t \in {"Boolean", "ColourRGB", "F32", "F64", "I32", "I64",
            "OptionalStringU8", "StringU8", "StringU16"} |->
        CASE t = "Boolean" -> "to_lua_bool"
          [] t \in {"F32", "I32"} -> "to_lua_num"
          [] OTHER -> "to_lua_str"]

\* converter(value)
Convert(converter, v) ==
    CASE converter = "to_lua_bool" -> to_lua_bool(v)
      [] converter = "to_lua_num" -> to_lua_num(v)
      [] converter = "to_lua_str" -> to_lua_str(v)

\* field_definition.get('field_type', {}).get('!__name__'), "None" when absent
_get_rust_type(field_definition) ==
    IF Has(field_definition, "field_type") THEN field_definition.field_type ELSE "None"

\* The outcomes of a call: a value, None, or the exception it raised.
Value(x) == [kind |-> "value", value |-> x]
None == [kind |-> "None"]
Raised(e) == [kind |-> e]

\* def_vN.get('version', unknown)
VersionOf(def_vN) == IF Has(def_vN, "version") THEN def_vN.version ELSE -99999

\* The loop passes over a definition of the version that has no fields and
\* stops at the first one that has them.
FirstUsableOfVersion(definitions, version) ==
    IF \E i \in 1..Len(definitions) :
           VersionOf(definitions[i]) = version /\ Has(definitions[i], "fields")
    THEN CHOOSE i \in 1..Len(definitions) :
             /\ VersionOf(definitions[i]) = version /\ Has(definitions[i], "fields")
             /\ \A j \in 1..(i - 1) :
                    ~(VersionOf(definitions[j]) = version /\ Has(definitions[j], "fields"))
    ELSE 0

\* The first definition the loop over the definitions of the table stops at:
\* its index, or 0 when the loop runs to its end.
FirstOfVersion(definitions, version) ==
    IF \E i \in 1..Len(definitions) : VersionOf(definitions[i]) = version
    THEN CHOOSE i \in 1..Len(definitions) :
             /\ VersionOf(definitions[i]) = version
             /\ \A j \in 1..(i - 1) : VersionOf(definitions[j]) # version
    ELSE 0

RECURSIVE ColumnConverters(_, _)
\* The loop over table_definition['fields'], from the converters built so
\* far: the first field without a converter or without a name ends it, in the
\* diagnostic print that reads field_def["name"].
ColumnConverters(fields, built) ==
    IF fields = <<>>
    THEN IF DOMAIN built = {} THEN None ELSE Value(built)
    ELSE LET field_def == Head(fields)
             tag == _get_rust_type(field_def)
             known == tag \in DOMAIN RUST_TYPE_TO_LUA
             named == Has(field_def, "name") /\ field_def.name # <<>>
         IN  IF ~(known /\ named)
             THEN IF Has(field_def, "name") THEN None ELSE Raised("KeyError")
             ELSE ColumnConverters(
                      Tail(fields),
                      [c \in DOMAIN built \cup {field_def.name} |->
                          IF c = field_def.name THEN RUST_TYPE_TO_LUA[tag]
                          ELSE built[c]])

\* schema.get('definitions', {}).get(table_name, [])
DefinitionsOf(sch, table_name) ==
    IF Has(sch, "definitions") /\ table_name \in DOMAIN sch.definitions
    THEN sch.definitions[table_name] ELSE <<>>

\* i: where the loop over the definitions stopped
ConvertersOfDefinition(definitions, i) ==
    IF i = 0 THEN None
    ELSE IF ~Has(definitions[i], "fields") THEN None
    ELSE ColumnConverters(definitions[i].fields, <<>>)

ConvertersOfDefinitions(definitions, version) ==
    ConvertersOfDefinition(definitions, FirstOfVersion(definitions, version))

_get_field_conterters(sch, table_name, version) ==
    ConvertersOfDefinitions(DefinitionsOf(sch, table_name), version)

\* _get_rpfm_db_schema() found no schema, or none that loads
NoSchema == [loaded |-> FALSE]

\* The value builder chosen: the converters of the schema, or None
\* ("No schema provided", "Failed to build converters").
_build_value_from_rust_types__factory(sch, table_name, version) ==
    IF ~sch.loaded THEN None
    ELSE _get_field_conterters(sch, table_name, version)

\* _dump_value(value, pos, column) of a resolved converter set
_dump_value(converters, value, pos, column) ==
    IF column \notin DOMAIN converters THEN Raised("AssertionError: wtf!?")
    ELSE IF converters[column] = "to_lua_num" /\ FloatRaises(value)
    THEN Raised("ValueError")
    ELSE Value(Convert(converters[column], value))

-----------------------------------------------------------------------------
(* Common stuff: keys, records, tables *)

\* _get_hex_digest(s): MD5 is read as a collision-free function, written as
\* the term md5(s). No text that is hashed holds a parenthesis, so the join
\* of several digests can be read back in one way only, as the join of
\* fixed-width hex digests can.
_get_hex_digest(s) == <<"m", "d", "5", "(">> \o s \o <<")">>

\* the digest of dump_record: None
NoDigest == <<>>

_build_indexed_key(pos, column) == <<"[">> \o IntStr(pos) \o <<"]">>

_build_normal_key(pos, column) == <<"[", "\"">> \o column \o <<"\"", "]">>

\* The key builder with the indexed key counted from 0.
KeyBuilderZeroBased(map_cols, pos, column) ==
    IF map_cols THEN _build_normal_key(pos, column)
    ELSE _build_indexed_key(pos - 1, column)

_key_builder_factory(map_cols, pos, column) ==
    IF map_cols THEN _build_normal_key(pos, column)
    ELSE _build_indexed_key(pos, column)

\* build_value(field, i, column): the converters of the schema when the
\* factory returned some, else _build_value_legacy
build_value(builder, field, i, column) ==
    IF builder.kind = "value" THEN _dump_value(builder.value, field, i, column)
    ELSE Value(_build_value_legacy(field, i, column))

Min(a, b) == IF a < b THEN a ELSE b

\* zip(columns, fields): as many pairs as the shorter of the two
ZipLen(columns, fields) == Min(Len(columns), Len(fields))

\* the first of the outcomes r that is an exception
FirstRaised(r) ==
    r[CHOOSE i \in 1..Len(r) :
          r[i].kind # "value" /\ \A j \in 1..(i - 1) : r[j].kind = "value"]

AllValues(r) == \A i \in 1..Len(r) : r[i].kind = "value"

\* '{%s}' % (','.join(lua_table_kv)), from the outcomes v of build_value
LuaTableOf(map_cols, columns, v) ==
    IF ~AllValues(v) THEN FirstRaised(v)
    ELSE Value(<<"{">>
               \o Join(<<",">>,
                       [i \in 1..Len(v) |->
                           _key_builder_factory(map_cols, i, columns[i])
                               \o <<"=">> \o v[i].value])
               \o <<"}">>)

\* _dump_as_lua_table(fields): the exception of the first field that raises
\* one, else the record
_dump_as_lua_table(builder, map_cols, columns, fields) ==
    LuaTableOf(map_cols, columns,
               [i \in 1..ZipLen(columns, fields) |->
                   build_value(builder, fields[i], i, columns[i])])

\* to_str(field)
to_str(field) == IF is_float(field) THEN to_lua_num(field) ELSE field

\* The fields joined as they come, without sorted().
FieldsInColumnOrder(fields) ==
    Join(<<>>, [i \in 1..Len(fields) |-> to_str(fields[i])])

\* ''.join(sorted(to_str(f) for f in fields)): the text that is hashed
sorted_fields(fields) ==
    Join(<<>>, Sorted([i \in 1..Len(fields) |-> to_str(fields[i])]))

\* RecordNDigest(dumped_lua_table, digest), unless the dump raised
RecordNDigest(dumped, digest) ==
    IF dumped.kind # "value" THEN dumped
    ELSE Value([record |-> dumped.value, digest |-> digest])

\* dump_record(tsv_line)
dump_record(builder, map_cols, columns, tsv_line) ==
    RecordNDigest(_dump_as_lua_table(builder, map_cols, columns, Split(tsv_line, "\t")),
                  NoDigest)

\* dump_record_and_calc_md5(tsv_line)
dump_record_and_calc_md5(builder, map_cols, columns, tsv_line) ==
    RecordNDigest(_dump_as_lua_table(builder, map_cols, columns, Split(tsv_line, "\t")),
                  _get_hex_digest(sorted_fields(Split(tsv_line, "\t"))))

_record_dumper_factory(builder, map_cols, columns, md5, tsv_line) ==
    IF md5 THEN dump_record_and_calc_md5(builder, map_cols, columns, tsv_line)
    ELSE dump_record(builder, map_cols, columns, tsv_line)

\* _dump_records(records, delim)
_dump_records(records, delim) ==
    Join(delim, [i \in 1..Len(records) |->
                    <<"[">> \o IntStr(i) \o <<"]", " ", "=", " ">> \o records[i].record])

_form_default_lua_table(records) ==
    <<"{", "\n", " ", " ">> \o _dump_records(records, <<",", "\n", " ", " ">>)
        \o <<"\n", "}">>

\* The digests joined in row order, without sorted().
AggChecksumInRowOrder(records) ==
    _get_hex_digest(Join(<<>>, [i \in 1..Len(records) |-> records[i].digest]))

RECURSIVE Dedupe(_)
\* the members of a sorted list, each once
Dedupe(s) ==
    IF Len(s) < 2 THEN s
    ELSE IF s[1] = s[2] THEN Dedupe(Tail(s))
    ELSE <<s[1]>> \o Dedupe(Tail(s))

\* The digests sorted as a set: sorted(set(...)).
AggChecksumOfSet(records) ==
    _get_hex_digest(Join(<<>>, Dedupe(Sorted([i \in 1..Len(records) |-> records[i].digest]))))

\* _get_hex_digest(''.join(sorted(digest for _, digest in records)))
stable_agg_checksum(records) ==
    _get_hex_digest(Join(<<>>, Sorted([i \in 1..Len(records) |-> records[i].digest])))

Chars_checksum == <<"[", "\"", "c", "h", "e", "c", "k", "s", "u", "m", "\"", "]", "=">>
Chars_records == <<"[", "\"", "r", "e", "c", "o", "r", "d", "s", "\"", "]", "=">>

_form_lua_table_with_md5(records) ==
    <<"{", "\n", " ", " ">> \o Chars_checksum
        \o <<"\"">> \o stable_agg_checksum(records) \o <<"\"", ",", "\n", " ", " ">>
        \o Chars_records \o <<"{", "\n", " ", " ", " ", " ">>
        \o _dump_records(records, <<",", "\n", " ", " ", " ", " ">>)
        \o <<"\n", " ", " ", "}", "\n", "}">>

_table_dumper_factory(md5, records) ==
    IF md5 THEN _form_lua_table_with_md5(records)
    ELSE _form_default_lua_table(records)

-----------------------------------------------------------------------------
(* Main: one file *)

Whitespace == {" ", "\t", "\n"}

RECURSIVE LStrip(_)
LStrip(s) == IF s # <<>> /\ Head(s) \in Whitespace THEN LStrip(Tail(s)) ELSE s

RECURSIVE RStrip(_)
RStrip(s) ==
    IF s # <<>> /\ s[Len(s)] \in Whitespace THEN RStrip(SubSeq(s, 1, Len(s) - 1)) ELSE s

\* line.strip()
Strip(s) == LStrip(RStrip(s))

\* _file_iterator(tsv): the lines get_next_line() returns before None. A
\* file is the sequence of its lines, each without its line end.
_file_iterator(tsv) == [i \in 1..Len(tsv) |-> Strip(tsv[i])]

WordChars ==
    Digits \cup {"_", "A", "a", "b", "c", "d", "e", "f", "h", "i", "k", "l", "m",
                 "n", "o", "r", "s", "t", "u"}

\* the place of the first c in s, or 0
IndexOf(s, c) ==
    IF \E i \in 1..Len(s) : s[i] = c
    THEN CHOOSE i \in 1..Len(s) : s[i] = c /\ \A j \in 1..(i - 1) : s[j] # c
    ELSE 0

\* RPFM_META_PATT.match(line): ^#(?P<table>[\w]+);(?P<version>[\d]+);
MetaTable(line) == SubSeq(line, 2, IndexOf(line, ";") - 1)

MetaRest(line) == SubSeq(line, IndexOf(line, ";") + 1, Len(line))

MetaVersion(line) == SubSeq(MetaRest(line), 1, IndexOf(MetaRest(line), ";") - 1)

RPFM_META_PATT(line) ==
    /\ line # <<>>
    /\ Head(line) = "#"
    /\ IndexOf(line, ";") > 2
    /\ \A i \in 1..Len(MetaTable(line)) : MetaTable(line)[i] \in WordChars
    /\ IndexOf(MetaRest(line), ";") > 1
    /\ AllDigits(MetaVersion(line))

RECURSIVE PyInt(_)
\* int(s) for a run of digits
PyInt(s) ==
    IF s = <<>> THEN 0
    ELSE 10 * PyInt(SubSeq(s, 1, Len(s) - 1)) + (Ord(s[Len(s)]) - Ord("0"))

\* the lines the loop `while line := get_next_line()` reads from line 3 on:
\* it ends at the first empty line
UpToFirstEmpty(rest) ==
    IF \E i \in 1..Len(rest) : rest[i] = <<>>
    THEN SubSeq(rest, 1, (CHOOSE i \in 1..Len(rest) :
                             rest[i] = <<>> /\ \A j \in 1..(i - 1) : rest[j] # <<>>) - 1)
    ELSE rest

DataLines(lines) == UpToFirstEmpty(SubSeq(lines, 3, Len(lines)))

\* records.append(build_lua_record(line)) for every data line, then
\* dump_lua_table(records), or '' without records
DumpRecords(md5, r) ==
    IF ~AllValues(r) THEN FirstRaised(r)
    ELSE IF Len(r) = 0 THEN Value(<<>>)
    ELSE Value(_table_dumper_factory(md5, [i \in 1..Len(r) |-> r[i].value]))

DumpLines(builder, map_cols, columns, md5, lines) ==
    DumpRecords(md5, [i \in 1..Len(lines) |->
                         _record_dumper_factory(builder, map_cols, columns, md5, lines[i])])

\* the rows under the value builder _get_data_builders chose, unless the
\* schema resolver raised
ConvertWith(builder, lines, map_cols, md5) ==
    IF builder.kind \notin {"value", "None"} THEN builder
    ELSE DumpLines(builder, map_cols, Split(lines[1], "\t"), md5, DataLines(lines))

\* _get_data_builders(...) and the rows, once the two head lines are read
ConvertRows(lines, sch, map_cols, md5) ==
    ConvertWith(_build_value_from_rust_types__factory(
                    sch, MetaTable(lines[2]), PyInt(MetaVersion(lines[2]))),
                lines, map_cols, md5)

\* tsv_to_lua_table(tsv_file_path, schema, map_columns=, md5=): the text, or
\* the exception raised. A missing second line hands None to the pattern's
\* match, which raises TypeError.
ConvertLines(lines, sch, map_cols, md5) ==
    IF Len(lines) = 0 \/ lines[1] = <<>>
    THEN Raised("AssertionError: no columns found")
    ELSE IF Len(lines) < 2 THEN Raised("TypeError")
    ELSE IF ~RPFM_META_PATT(lines[2])
    THEN Raised("AssertionError: invalid file format")
    ELSE ConvertRows(lines, sch, map_cols, md5)

tsv_to_lua_table(tsv, sch, map_cols, md5) ==
    ConvertLines(_file_iterator(tsv), sch, map_cols, md5)

-----------------------------------------------------------------------------
(* Bounds and the values drawn *)

MaxValueLen == 4    \* longest field text drawn character by character
MaxPos == 4         \* largest ordinal of a field

Pending == [done |-> FALSE]
Done(x) == [done |-> TRUE, out |-> x]
NoError == "none"

RECURSIVE StringsUpTo(_, _)
\* every text of at most n characters of the set chars
StringsUpTo(chars, n) ==
    IF n = 0 THEN {<<>>}
    ELSE LET shorter == StringsUpTo(chars, n - 1)
         IN  shorter \cup {<<c>> \o t : c \in chars, t \in {u \in shorter : Len(u) = n - 1}}

ValueChars == {"0", "5", ".", "-", "e"}

SampleValues ==
    { <<"0", "0", "7">>, <<"3", ".", "0">>, <<"t", "r", "u", "e">>,
      <<"3", ".", "5", "0">>, <<"f", "a", "l", "s", "e">>, <<"t", "r", "u">>,
      <<"t", "r", "u", "e", "e">>, <<"A", "l", "i", "c", "e">>, <<"1">>,
      <<"-", "0", ".", "0">>, <<"0", "0", "7", ".", "0">>,
      <<"0", "7", ".", "5", "0">>, <<"a", " ", "b">>, <<"]", "=", "]">> }

Values == StringsUpTo(ValueChars, MaxValueLen) \cup SampleValues

\* The batch is idle while a pure function is exercised, and the other way
\* round.
BatchIdle ==
    /\ files = <<>>
    /\ should_replace = FALSE
    /\ add_return = FALSE
    /\ map_columns = FALSE
    /\ calculate_md5 = FALSE
    /\ schema = NoSchema
    /\ pc = "idle"
    /\ cur = 0
    /\ artifacts = <<>>
    /\ sources = {}
    /\ error = NoError

MaxFields == 3      \* most fields of a row, and most columns of a header

FieldSamples ==
    { <<"1">>, <<"A", "l", "i", "c", "e">>, <<"3", ".", "0">>,
      <<"3", ".", "5", "0">>, <<>> }

RECURSIVE SeqsOfLen(_, _)
\* the sequences of n members of S
SeqsOfLen(S, n) ==
    IF n = 0 THEN {<<>>}
    ELSE {<<x>> \o t : x \in S, t \in SeqsOfLen(S, n - 1)}

SeqsUpTo(S, n) == UNION {SeqsOfLen(S, k) : k \in 1..n}

\* the header of n columns: id, name, c3, c4, ...
ColumnName(i) ==
    CASE i = 1 -> <<"i", "d">>
      [] i = 2 -> <<"n", "a", "m", "e">>
      [] OTHER -> <<"c">> \o IntStr(i)

Header(n) == [i \in 1..n |-> ColumnName(i)]

\* a converter set as the schema resolver returns it: strings, but a number
\* in the third column
SampleConverters ==
    Value([c \in {ColumnName(i) : i \in 1..MaxFields} |->
              IF c = ColumnName(3) THEN "to_lua_num" ELSE "to_lua_str"])

MaxFiles == 2       \* most files of a batch
MaxRows == 3        \* most data rows of a table

\* the rows of two fields the tables are drawn from, and the texts a field
\* is changed to
TableRows ==
    { << <<"a", "b">>, <<"a", "b">> >>, << <<"a", "b">>, <<"b", "a">> >>,
      << <<"3", ".", "0">>, <<"a", "b">> >>, << <<"a", "b", "a">>, <<"a", "b">> >> }

ChangedFieldSamples ==
    { <<"a", "b">>, <<"b", "a">>, <<"3", ".", "0", "0">>, <<"3">>, <<"3", ".", "5">> }


\* The files a batch is drawn from, by name: a table of two rows, a table
\* without rows, a marker line without its #, a file that ends after the
\* header, an empty file, rows with empty first and last fields and a blank
\* line, a header with a column the schema does not know, and the same
\* header over a row whose last field is empty.
FileIds ==
    {"good.tsv", "norows.tsv", "badmeta.tsv", "nometa.tsv", "empty.tsv", "gaps.tsv",
     "extra.tsv", "short.tsv"}

FileContent(file) ==
    CASE file = "good.tsv" ->
        <<<<"i", "d", "\t", "n", "a", "m", "e">>,
           <<"#", "t", ";", "1", ";">>,
           <<"1", "\t", "a", "b">>,
           <<"2", "\t", "3", ".", "5", "0">>>>
      [] file = "norows.tsv" ->
        <<<<"i", "d", "\t", "n", "a", "m", "e">>,
           <<"#", "t", ";", "1", ";">>>>
      [] file = "badmeta.tsv" ->
        <<<<"i", "d", "\t", "n", "a", "m", "e">>,
           <<"t", ";", "1", ";">>,
           <<"1", "\t", "a", "b">>>>
      [] file = "nometa.tsv" ->
        <<<<"i", "d", "\t", "n", "a", "m", "e">>>>
      [] file = "empty.tsv" ->
        <<>>
      [] file = "gaps.tsv" ->
        <<<<"i", "d", "\t", "n", "a", "m", "e">>,
           <<"#", "t", ";", "1", ";">>,
           <<"\t", "a", "b">>,
           <<"1", "\t">>,
           <<>>,
           <<"2", "\t", "b", "a">>>>
      [] file = "extra.tsv" ->
        <<<<"i", "d", "\t", "c", "o", "d", "e">>,
           <<"#", "t", ";", "1", ";">>,
           <<"1", "\t", "a", "b">>>>
      [] file = "short.tsv" ->
        <<<<"i", "d", "\t", "c", "o", "d", "e">>,
           <<"#", "t", ";", "1", ";">>,
           <<"1", "\t">>>>

\* a loaded schema: table t, version 1, two string columns
SampleSchema ==
    [loaded |-> TRUE,
     definitions |->
        [n \in {<<"t">>} |->
            <<[version |-> 1,
               fields |-> <<[name |-> ColumnName(1), field_type |-> "StringU8"],
                            [name |-> ColumnName(2), field_type |-> "StringU8"]>>]>>]]

MaxSchemaFields == 2    \* most field definitions of a table definition
MaxDefs == 2            \* most definitions of a table

\* The field definitions a schema is drawn from: two good ones, a type tag
\* that RUST_TYPE_TO_LUA does not hold, a definition without name, one
\* without field_type, and one with an empty name.
FieldDefSamples ==
    { [name |-> ColumnName(1), field_type |-> "StringU8"],
      [name |-> ColumnName(2), field_type |-> "I32"],
      [name |-> ColumnName(2), field_type |-> "SequenceU32"],
      [field_type |-> "StringU8"],
      [name |-> ColumnName(1)],
      [name |-> <<>>, field_type |-> "StringU8"] }

\* The shapes of a definition: its version (0: none) and whether it has a
\* fields collection.
DefShapes == [version : {0, 1, 2}, has_fields : BOOLEAN]

\* the definition of a shape, with the fields given
DefinitionOf(shape, fields) ==
    IF shape.version = 0
    THEN (IF shape.has_fields THEN [fields |-> fields] ELSE [other |-> 0])
    ELSE (IF shape.has_fields THEN [version |-> shape.version, fields |-> fields]
          ELSE [version |-> shape.version])

\* The fields of the i-th definition of the table: the definitions differ,
\* each leaves out the first field of the one before it.
FieldsOfDef(fields, i) == SubSeq(fields, i, Len(fields))

\* the schema whose table t has the definitions of the shapes
SchemaOf(shapes, fields) ==
    [loaded |-> TRUE,
     definitions |->
        [n \in {<<"t">>} |->
            [i \in 1..Len(shapes) |-> DefinitionOf(shapes[i], FieldsOfDef(fields, i))]]]

\* a file of table t, version 1, with one data row
SampleLines ==
    << <<"i", "d", "\t", "n", "a", "m", "e">>, <<"#", "t", ";", "1", ";">>,
       <<"0", "7", "\t", "3", ".", "0">> >>

NotWritten == [exists |-> FALSE]
Written(text) == [exists |-> TRUE, text |-> text]

-----------------------------------------------------------------------------
(* SpecValue: _build_value_legacy applied to one field *)

InitValue ==
    /\ BatchIdle
    /\ op = "value"
    /\ arg \in [value : Values, pos : 1..MaxPos]
    /\ res = Pending

BuildValueLegacy ==
    /\ op = "value"
    /\ res = Pending
    /\ res' = Done(_build_value_legacy(arg.value, arg.pos, <<>>))
    /\ UNCHANGED <<op, arg>>
    /\ UNCHANGED batchVars

NextValue == BuildValueLegacy

SpecValue == InitValue /\ [][NextValue]_vars

-----------------------------------------------------------------------------
(* C7 *)

\* ^-?[0-9]+$ and ^-?[0-9]+\.[0-9]+$, read position by position
LooksInteger(v) ==
    /\ Len(v) >= 1
    /\ \A i \in 1..Len(v) :
           v[i] \in Digits \/ (i = 1 /\ v[i] = "-" /\ Len(v) > 1)

LooksDecimal(v) ==
    \E k \in 2..(Len(v) - 1) :
        /\ v[k] = "."
        /\ \A i \in (1..Len(v)) \ {k} :
               v[i] \in Digits \/ (i = 1 /\ v[i] = "-" /\ k > 2)

RECURSIVE DigitsValue(_)
\* the number a run of digits writes
DigitsValue(ds) ==
    IF ds = <<>> THEN 0
    ELSE 10 * DigitsValue(SubSeq(ds, 1, Len(ds) - 1))
         + (CHOOSE n \in 0..9 : IntStr(n) = <<ds[Len(ds)]>>)

RECURSIVE Pow10(_)
Pow10(n) == IF n = 0 THEN 1 ELSE 10 * Pow10(n - 1)

\* the parts of a text that LooksDecimal
Unsigned(v) == IF Head(v) = "-" THEN Tail(v) ELSE v
PointOf(v) == CHOOSE k \in 1..Len(v) : v[k] = "."
WholePart(v) == SubSeq(Unsigned(v), 1, PointOf(Unsigned(v)) - 1)
FractionPart(v) == SubSeq(Unsigned(v), PointOf(Unsigned(v)) + 1, Len(Unsigned(v)))

\* r is the canonical decimal of the number v writes: the same sign and
\* value, no leading zero before a digit, no trailing zero in the fraction
CanonicalDecimalOf(r, v) ==
    /\ LooksDecimal(r)
    /\ (Head(r) = "-") <=> (Head(v) = "-")
    /\ DigitsValue(WholePart(r) \o FractionPart(r)) * Pow10(Len(FractionPart(v)))
         = DigitsValue(WholePart(v) \o FractionPart(v)) * Pow10(Len(FractionPart(r)))
    /\ (Len(WholePart(r)) > 1 => Head(WholePart(r)) # "0")
    /\ FractionPart(r)[Len(FractionPart(r))] # "0"

Bracketed(v) == "[=[" \o Str(v) \o "]=]"

\* C7: in heuristic mode a field is rendered by the first applicable rule of:
\* ordinal 1 -> long-bracket string; true/false -> unquoted; integer pattern
\* -> unchanged; decimal pattern -> its integer part when the fraction is all
\* zeros, else the canonical decimal; anything else -> long-bracket string.
\* The row ["007","3.0","true","3.50"] renders as [=[007]=], 3, true, 3.5.
C7_HeuristicRuleOrder ==
    (op = "value" /\ res.done) =>
        LET v == arg.value
            r == res.out
        IN  /\ IF arg.pos = 1 THEN Str(r) = Bracketed(v)
               ELSE IF Str(v) \in {"true", "false"} THEN r = v
               ELSE IF LooksInteger(v) THEN r = v
               ELSE IF LooksDecimal(v)
                    THEN IF DigitsValue(FractionPart(v)) = 0
                         THEN r = SubSeq(v, 1, PointOf(v) - 1)
                         ELSE CanonicalDecimalOf(r, v)
               ELSE Str(r) = Bracketed(v)
            /\ (Str(v) = "007" /\ arg.pos = 1) => Str(r) = "[=[007]=]"
            /\ (Str(v) = "3.0" /\ arg.pos = 2) => Str(r) = "3"
            /\ (Str(v) = "true" /\ arg.pos = 3) => Str(r) = "true"
            /\ (Str(v) = "3.50" /\ arg.pos = 4) => Str(r) = "3.5"

\* the last field of the example row was rendered
C7_Witness ==
    /\ op = "value"
    /\ res.done
    /\ Str(arg.value) = "3.50"
    /\ arg.pos = 4
    /\ Str(res.out) = "3.5"

-----------------------------------------------------------------------------
(* SpecRecord: the record builder applied to one data line *)

InitRecord ==
    /\ BatchIdle
    /\ op = "record"
    /\ arg \in [columns : {Header(n) : n \in 1..MaxFields},
                line : {Join(<<"\t">>, f) : f \in SeqsUpTo(FieldSamples, MaxFields)},
                map_columns : BOOLEAN,
                md5 : BOOLEAN,
                builder : {None, SampleConverters}]
    /\ res = Pending

BuildRecord ==
    /\ op = "record"
    /\ res = Pending
    /\ res' = Done(_record_dumper_factory(arg.builder, arg.map_columns, arg.columns,
                                          arg.md5, arg.line))
    /\ UNCHANGED <<op, arg>>
    /\ UNCHANGED batchVars

NextRecord == BuildRecord

SpecRecord == InitRecord /\ [][NextRecord]_vars

-----------------------------------------------------------------------------
(* C8 *)

\* the fields of the line of the state
FieldsOfArg == Split(arg.line, "\t")

RecordBuilt == op = "record" /\ res.done /\ res.out.kind = "value"

\* the key of entry i as the claim writes it
KeyText(i) ==
    IF arg.map_columns THEN "[\"" \o Str(arg.columns[i]) \o "\"]"
    ELSE "[" \o Str(IntStr(i)) \o "]"

\* the value of entry i, which is rendered without the key style
ValueText(i) == Str(build_value(arg.builder, FieldsOfArg[i], i, arg.columns[i]).value)

RECURSIVE Entries(_, _)
\* the entries i..n of a record, separated by commas
Entries(i, n) ==
    IF i > n THEN ""
    ELSE KeyText(i) \o "=" \o ValueText(i) \o (IF i < n THEN "," ELSE "") \o Entries(i + 1, n)

\* C8: the encoded record lists its key=value entries in column order, entry
\* i keyed [i] in indexed mode and ["<column_i>"] in named mode; the key
\* style changes the keys only. Columns [id,name] with row [1,Alice] give
\* {[1]=[=[1]=],[2]=[=[Alice]=]} indexed, {["id"]=[=[1]=],["name"]=[=[Alice]=]}
\* named.
C8_KeyStyle ==
    RecordBuilt =>
        /\ Str(res.out.value.record)
             = "{" \o Entries(1, ZipLen(arg.columns, FieldsOfArg)) \o "}"
        /\ (/\ arg.builder = None
            /\ Len(arg.columns) = 2
            /\ Str(arg.line) = "1\tAlice")
           => Str(res.out.value.record)
                = (IF arg.map_columns THEN "{[\"id\"]=[=[1]=],[\"name\"]=[=[Alice]=]}"
                   ELSE "{[1]=[=[1]=],[2]=[=[Alice]=]}")

\* the example row was encoded with indexed keys
C8_Witness ==
    /\ RecordBuilt
    /\ arg.builder = None
    /\ ~arg.map_columns
    /\ Len(arg.columns) = 2
    /\ Str(arg.line) = "1\tAlice"
    /\ Str(res.out.value.record) = "{[1]=[=[1]=],[2]=[=[Alice]=]}"

-----------------------------------------------------------------------------
(* C2 *)

DigestBuilt == RecordBuilt /\ arg.md5

\* the text inside md5(...)
HashedText(digest) == SubSeq(digest, 5, Len(digest) - 1)

\* c is the text the digest takes for the field v: v itself, or for a
\* float-looking v the number it writes, in canonical form
CanonicalField(c, v) ==
    IF ~LooksDecimal(v) THEN c = v
    ELSE IF DigitsValue(FractionPart(v)) = 0
         THEN /\ LooksInteger(c)
              /\ DigitsValue(Unsigned(c)) = DigitsValue(WholePart(v))
              /\ (Len(Unsigned(c)) > 1 => Head(Unsigned(c)) # "0")
              /\ (Head(c) = "-") <=> (Head(v) = "-" /\ DigitsValue(WholePart(v)) # 0)
         ELSE CanonicalDecimalOf(c, v)

\* the canonical texts of the fields of the line, in column order
CanonicalFields == [i \in 1..Len(FieldsOfArg) |-> to_str(FieldsOfArg[i])]

Orderings(n) == {p \in [1..n -> 1..n] : \A i, j \in 1..n : i # j => p[i] # p[j]}

\* the digest of the record built from the fields f (with the heuristic
\* typing, which renders every text)
DigestOfFields(f) ==
    _record_dumper_factory(None, arg.map_columns, Header(Len(f)), TRUE,
                           Join(<<"\t">>, f)).value.digest

\* C2 as stated: the content key is the concatenation of the field strings in
\* column order, so rows with the same values in other positions differ in
\* their content keys.
C2_ColumnOrderKey ==
    DigestBuilt =>
        /\ HashedText(res.out.value.digest) = Join(<<>>, CanonicalFields)
        /\ \A p \in Orderings(Len(FieldsOfArg)) :
               LET f == [i \in 1..Len(FieldsOfArg) |-> FieldsOfArg[p[i]]]
               IN  f # FieldsOfArg
                     => HashedText(DigestOfFields(f)) # HashedText(res.out.value.digest)

\* C2 amended: the content key is the concatenation, with no separator, of
\* the field strings (float-looking fields canonicalized, the others
\* unchanged) in sorted order, so rows with the same values in other
\* positions have the same content key.
C2_SortedKey ==
    DigestBuilt =>
        /\ \A i \in 1..Len(FieldsOfArg) : CanonicalField(CanonicalFields[i], FieldsOfArg[i])
        /\ \E p \in Orderings(Len(FieldsOfArg)) :
               /\ \A i \in 1..(Len(FieldsOfArg) - 1) :
                      ~StrLess(CanonicalFields[p[i + 1]], CanonicalFields[p[i]])
               /\ HashedText(res.out.value.digest)
                    = Join(<<>>, [i \in 1..Len(FieldsOfArg) |-> CanonicalFields[p[i]]])
        /\ \A p \in Orderings(Len(FieldsOfArg)) :
               DigestOfFields([i \in 1..Len(FieldsOfArg) |-> FieldsOfArg[p[i]]])
                 = res.out.value.digest

\* a digest was built of a row whose fields are not in sorted order
C2_Witness ==
    /\ DigestBuilt
    /\ Len(FieldsOfArg) = 2
    /\ Str(FieldsOfArg[1]) = "Alice"
    /\ Str(FieldsOfArg[2]) = "3.50"
    /\ Str(res.out.value.digest) = "md5(3.5Alice)"

-----------------------------------------------------------------------------
(* Spec: execute(files, dest, should_replace, map_columns, add_return,     *)
(* calculate_md5) on a batch                                               *)

Init ==
    /\ files \in {<<>>} \cup SeqsUpTo(FileIds, MaxFiles)
    /\ should_replace \in BOOLEAN
    /\ add_return \in BOOLEAN
    /\ map_columns \in BOOLEAN
    /\ calculate_md5 \in BOOLEAN
    /\ schema \in {NoSchema, SampleSchema}
    /\ pc = "convert"
    /\ cur = 0
    /\ artifacts = [f \in FileIds |-> NotWritten]
    /\ sources = {files[i] : i \in 1..Len(files)}
    /\ error = NoError
    /\ op = "batch"
    /\ arg = <<>>
    /\ res = Pending

\* The loop catches the exception and goes on with the next file.
SkipFailedFile(e) ==
    /\ cur' = cur + 1
    /\ error' = e
    /\ UNCHANGED <<pc, artifacts, sources>>

\* An exception leaves _convert_all_files and execute: nothing of execute
\* runs after it.
RaiseFromConvert(e) ==
    /\ pc' = "failed"
    /\ error' = e
    /\ UNCHANGED <<cur, artifacts, sources>>

\* The output is written and the source unlinked in the same pass.
WriteThenUnlink(file, text) ==
    /\ artifacts' = [artifacts EXCEPT ![file] = Written(text)]
    /\ sources' = sources \ {file}
    /\ cur' = cur + 1
    /\ UNCHANGED <<pc, error>>

\* (directory / f'{stem}.lua').write_text(lua_table), and on to the next file
WriteArtifact(file, text) ==
    /\ artifacts' = [artifacts EXCEPT ![file] = Written(text)]
    /\ cur' = cur + 1
    /\ UNCHANGED <<pc, error, sources>>

Chars_return == <<"r", "e", "t", "u", "r", "n", " ">>

\* What one pass of the loop does with the outcome of tsv_to_lua_table. The
\* source may be unreadable and the destination unwritable: both raise
\* OSError.
FinishConvert(file, lua_table) ==
    \/ RaiseFromConvert("OSError: open")
    \/ /\ lua_table.kind # "value"
       /\ RaiseFromConvert(lua_table.kind)
    \/ /\ lua_table.kind = "value"
       /\ RaiseFromConvert("OSError: write_text")
    \/ /\ lua_table.kind = "value"
       /\ WriteArtifact(file, IF add_return THEN Chars_return \o lua_table.value
                              ELSE lua_table.value)

\* One pass of the loop of _convert_all_files
ConvertFile ==
    /\ pc = "convert"
    /\ cur < Len(files)
    /\ FinishConvert(files[cur + 1],
                     tsv_to_lua_table(FileContent(files[cur + 1]), schema, map_columns,
                                      calculate_md5))
    /\ UNCHANGED <<files, should_replace, add_return, map_columns, calculate_md5, schema>>
    /\ UNCHANGED pureVars

\* _convert_all_files returned: `if should_replace: _remove_source_files(files)`
ConvertedAll ==
    /\ pc = "convert"
    /\ cur = Len(files)
    /\ pc' = IF should_replace THEN "remove" ELSE "done"
    /\ cur' = 0
    /\ UNCHANGED <<files, should_replace, add_return, map_columns, calculate_md5, schema,
                   artifacts, sources, error>>
    /\ UNCHANGED pureVars

\* One pass of the loop of _remove_source_files: file.unlink(missing_ok=True)
RemoveSourceFile ==
    /\ pc = "remove"
    /\ cur < Len(files)
    /\ sources' = sources \ {files[cur + 1]}
    /\ cur' = cur + 1
    /\ UNCHANGED <<files, should_replace, add_return, map_columns, calculate_md5, schema,
                   pc, artifacts, error>>
    /\ UNCHANGED pureVars

RemovedAll ==
    /\ pc = "remove"
    /\ cur = Len(files)
    /\ pc' = "done"
    /\ UNCHANGED <<files, should_replace, add_return, map_columns, calculate_md5, schema,
                   cur, artifacts, sources, error>>
    /\ UNCHANGED pureVars

Next == ConvertFile \/ ConvertedAll \/ RemoveSourceFile \/ RemovedAll

Spec == Init /\ [][Next]_vars

-----------------------------------------------------------------------------
(* The batch: what is known of a file and of the run *)

\* the outcome of converting the file under the flags of the run
OutcomeOf(file) == tsv_to_lua_table(FileContent(file), schema, map_columns, calculate_md5)

WellFormed(file) == OutcomeOf(file).kind = "value"

\* the text the run writes for a file that converts
ArtifactText(file) ==
    IF add_return THEN Chars_return \o OutcomeOf(file).value ELSE OutcomeOf(file).value

HasHeader(file) == Len(FileContent(file)) >= 1 /\ Strip(FileContent(file)[1]) # <<>>

HasMarker(file) ==
    Len(FileContent(file)) >= 2 /\ RPFM_META_PATT(Strip(FileContent(file)[2]))

\* header and marker line only
NoDataRows(file) == HasHeader(file) /\ HasMarker(file) /\ Len(FileContent(file)) = 2

\* the files the conversion loop has passed
PassedCount == IF pc \in {"remove", "done"} THEN Len(files) ELSE cur

AllSources == {files[i] : i \in 1..Len(files)}

-----------------------------------------------------------------------------
(* C3 *)

\* C3: a file with a valid header and a valid marker line but no data row
\* converts to the empty string, and no output artifact is written for it,
\* whatever add_return is.
C3_NoArtifactForEmptyTable ==
    \A i \in 1..PassedCount :
        NoDataRows(files[i]) =>
            /\ OutcomeOf(files[i]) = Value(<<>>)
            /\ ~artifacts[files[i]].exists

-----------------------------------------------------------------------------
(* C4 *)

\* C4: a file whose second line is absent or does not match the marker
\* pattern fails with the 'invalid file format' assertion, gets no artifact,
\* and the artifacts written for the earlier files stay as they are.
C4_FormatErrorOnBadMarker ==
    /\ \A i \in 1..PassedCount : HasHeader(files[i]) => HasMarker(files[i])
    /\ (/\ pc = "failed"
        /\ error # "OSError: open"
        /\ HasHeader(files[cur + 1])
        /\ ~HasMarker(files[cur + 1]))
       => /\ error = "AssertionError: invalid file format"
          /\ ~artifacts[files[cur + 1]].exists
          /\ \A j \in 1..cur : artifacts[files[j]] = Written(ArtifactText(files[j]))

-----------------------------------------------------------------------------
(* C5 *)

\* C5: with should_replace no source is deleted before every file of the
\* batch is converted and written, and none at all when a conversion or a
\* write failed.
C5_SourcesKeptUntilAllWritten ==
    /\ sources # AllSources
         => /\ should_replace
            /\ error = NoError
            /\ pc \in {"remove", "done"}
            /\ \A i \in 1..Len(files) :
                   artifacts[files[i]] = Written(ArtifactText(files[i]))
    /\ error # NoError => sources = AllSources

\* the sources of a batch of several files were deleted
C5_Witness ==
    /\ pc = "done"
    /\ should_replace
    /\ Len(files) >= 2
    /\ files[1] # files[2]
    /\ sources = {}
    /\ \A i \in 1..Len(files) : artifacts[files[i]].exists

-----------------------------------------------------------------------------
(* C6 *)

\* C6 as stated: a failure on one file does not keep the files after it from
\* being converted: every well-formed file after the failing one has its
\* artifact when the run has ended.
C6_RemainingFilesConverted ==
    pc = "failed" =>
        \A i \in (cur + 2)..Len(files) :
            (WellFormed(files[i]) /\ files[i] # files[cur + 1])
                => artifacts[files[i]].exists

\* C6 amended: a failure on one file ends the batch: the exception leaves
\* execute, the loop never passes a file that does not convert, the files
\* before the failing one have their artifacts and no file after it is
\* attempted.
C6_FailureEndsBatch ==
    /\ \A i \in 1..Len(files) :
           ~WellFormed(files[i]) => (pc \in {"convert", "failed"} /\ cur < i)
    /\ (error # NoError) <=> (pc = "failed")
    /\ pc = "failed" =>
           \A f \in FileIds : artifacts[f].exists <=> f \in {files[i] : i \in 1..cur}

\* the run ended on its first file and a well-formed file after it was left
C6_Witness ==
    /\ pc = "failed"
    /\ cur = 0
    /\ Len(files) >= 2
    /\ ~WellFormed(files[1])
    /\ WellFormed(files[2])
    /\ ~artifacts[files[2]].exists

-----------------------------------------------------------------------------
(* SpecTable: the rows of a file encoded and assembled *)

\* the data line of a row
LineOf(row) == Join(<<"\t">>, row)

\* the data lines of a table
LinesOf(rows) == [i \in 1..Len(rows) |-> LineOf(rows[i])]

InitTable ==
    /\ BatchIdle
    /\ op = "table"
    /\ arg \in [rows : SeqsUpTo(TableRows, MaxRows), md5 : BOOLEAN]
    /\ res = Pending

\* the loop over the data lines and dump_lua_table(records), with the
\* heuristic typing and indexed keys
BuildTable ==
    /\ op = "table"
    /\ res = Pending
    /\ res' = Done(DumpLines(None, FALSE, Header(2), arg.md5, LinesOf(arg.rows)))
    /\ UNCHANGED <<op, arg>>
    /\ UNCHANGED batchVars

NextTable == BuildTable

SpecTable == InitTable /\ [][NextTable]_vars

-----------------------------------------------------------------------------
(* C1 *)

\* the text between ["checksum"]=" and the quote that ends it
ChecksumIn(text) ==
    SubSeq(text, 19, (CHOOSE k \in 19..Len(text) :
                          text[k] = "\"" /\ \A j \in 19..(k - 1) : text[j] # "\"") - 1)

\* the checksum of the table of the rows
ChecksumOfRows(rows) ==
    ChecksumIn(DumpLines(None, FALSE, Header(2), TRUE, LinesOf(rows)).value)

\* the digest of the record of a row
DigestOfRow(row) ==
    _record_dumper_factory(None, FALSE, Header(2), TRUE, LineOf(row)).value.digest

TableBuilt == op = "table" /\ res.done /\ arg.md5

\* C1: in digest mode every permutation of the records gives the same
\* checksum: it is the hash of the per-record digests, sorted and joined.
C1_ChecksumOrderIndependent ==
    TableBuilt =>
        /\ \A p \in Orderings(Len(arg.rows)) :
               ChecksumOfRows([i \in 1..Len(arg.rows) |-> arg.rows[p[i]]])
                 = ChecksumIn(res.out.value)
        /\ \E p \in Orderings(Len(arg.rows)) :
               /\ \A i \in 1..(Len(arg.rows) - 1) :
                      ~StrLess(DigestOfRow(arg.rows[p[i + 1]]), DigestOfRow(arg.rows[p[i]]))
               /\ HashedText(ChecksumIn(res.out.value))
                    = Join(<<>>, [i \in 1..Len(arg.rows) |-> DigestOfRow(arg.rows[p[i]])])

\* a table was assembled whose rows do not come in the order of their digests
C1_Witness ==
    /\ TableBuilt
    /\ Len(arg.rows) = 2
    /\ StrLess(DigestOfRow(arg.rows[2]), DigestOfRow(arg.rows[1]))
    /\ HashedText(ChecksumIn(res.out.value))
         = DigestOfRow(arg.rows[2]) \o DigestOfRow(arg.rows[1])

-----------------------------------------------------------------------------
(* C9 *)

\* the rows with field j of row i changed to w
WithField(rows, i, j, w) == [rows EXCEPT ![i] = [rows[i] EXCEPT ![j] = w]]

\* C9 as stated: with a collision-free hash, changing one field of one row
\* to another text changes the checksum.
C9_AnyChangeChangesChecksum ==
    TableBuilt =>
        \A i \in 1..Len(arg.rows) : \A j \in 1..2 : \A w \in ChangedFieldSamples :
            w # arg.rows[i][j]
                => ChecksumOfRows(WithField(arg.rows, i, j, w)) # ChecksumIn(res.out.value)

\* C9 amended: with a collision-free hash, changing one field of one row
\* changes the checksum exactly when it changes the text the digest of the
\* row is taken of, the sorted join of its canonical field texts; 3.0 -> 3.00
\* and ab -> ba beside aba leave the checksum as it was.
C9_ChecksumChangesWithRowKey ==
    TableBuilt =>
        \A i \in 1..Len(arg.rows) : \A j \in 1..2 : \A w \in ChangedFieldSamples :
            (ChecksumOfRows(WithField(arg.rows, i, j, w)) # ChecksumIn(res.out.value))
                <=> (sorted_fields([arg.rows[i] EXCEPT ![j] = w]) # sorted_fields(arg.rows[i]))

\* a table of three rows, two of them alike, was assembled: changing a field
\* of one of the two makes it the third
C9_Witness ==
    /\ TableBuilt
    /\ Len(arg.rows) = 3
    /\ arg.rows[1] = arg.rows[2]
    /\ arg.rows[3] # arg.rows[1]
    /\ \E j \in 1..2 : [arg.rows[2] EXCEPT ![j] = arg.rows[3][j]] = arg.rows[3]

-----------------------------------------------------------------------------
(* SpecSchema: _get_data_builders on a drawn schema *)

InitSchema ==
    /\ BatchIdle
    /\ op = "schema"
    /\ arg \in [shapes : {<<>>} \cup SeqsUpTo(DefShapes, MaxDefs),
                fields : {<<>>} \cup SeqsUpTo(FieldDefSamples, MaxSchemaFields),
                loaded : BOOLEAN]
    /\ res = Pending

SchemaOfArg == IF arg.loaded THEN SchemaOf(arg.shapes, arg.fields) ELSE NoSchema

\* the value builder chosen for table t, version 1, and the conversion of
\* the sample file under it
GetDataBuilders ==
    /\ op = "schema"
    /\ res = Pending
    /\ res' = Done([builder |-> _build_value_from_rust_types__factory(
                                    SchemaOfArg, <<"t">>, 1),
                    table |-> ConvertRows(SampleLines, SchemaOfArg, FALSE, FALSE)])
    /\ UNCHANGED <<op, arg>>
    /\ UNCHANGED batchVars

NextSchema == GetDataBuilders

SpecSchema == InitSchema /\ [][NextSchema]_vars

-----------------------------------------------------------------------------
(* C10 *)

\* the first definition of version 1: its index, or 0
FirstMatch(shapes) ==
    IF \E i \in 1..Len(shapes) : shapes[i].version = 1
    THEN CHOOSE i \in 1..Len(shapes) :
             shapes[i].version = 1 /\ \A j \in 1..(i - 1) : shapes[j].version # 1
    ELSE 0

\* the definition of version 1 the resolver selects: the first of that
\* version, when it has a fields collection
SelectedShape(shapes) ==
    IF FirstMatch(shapes) # 0 THEN shapes[FirstMatch(shapes)]
    ELSE [version |-> 0, has_fields |-> FALSE]

HasSelected == arg.loaded /\ SelectedShape(arg.shapes).has_fields

\* the field definitions of the selected definition
SelectedFields == FieldsOfDef(arg.fields, FirstMatch(arg.shapes))

UnknownType(fd) ==
    ~Has(fd, "field_type") \/ fd.field_type \notin DOMAIN RUST_TYPE_TO_LUA

NoName(fd) == ~Has(fd, "name") \/ fd.name = <<>>

\* the sample file converted with the heuristic typing
HeuristicTable == DumpLines(None, FALSE, Split(SampleLines[1], "\t"), FALSE,
                            DataLines(SampleLines))

\* C10: a field definition of the selected definition with an unknown type
\* tag or without a name, or a definition of zero fields, makes the
\* resolver return None, and the table is converted with the heuristic
\* typing: no crash, no partial use of the schema.
C10_BadFieldDegrades ==
    (/\ op = "schema"
     /\ res.done
     /\ HasSelected
     /\ \/ SelectedFields = <<>>
        \/ \E k \in 1..Len(SelectedFields) :
               UnknownType(SelectedFields[k]) \/ NoName(SelectedFields[k]))
    => /\ res.out.builder = None
       /\ res.out.table = HeuristicTable

-----------------------------------------------------------------------------
(* C11 *)

SchemaResolved == op = "schema" /\ res.done

GoodField(fd) == ~UnknownType(fd) /\ ~NoName(fd)

AllGood(fields) == fields # <<>> /\ \A k \in 1..Len(fields) : GoodField(fields[k])

\* the converter set the field definitions stand for: every name with the
\* converter of its type tag
ConvertersOfFields(fields) ==
    [c \in {fields[k].name : k \in 1..Len(fields)} |->
        RUST_TYPE_TO_LUA[fields[CHOOSE k \in 1..Len(fields) :
                                    /\ fields[k].name = c
                                    /\ \A l \in (k + 1)..Len(fields) : fields[l].name # c
                                ].field_type]]

\* the first definition of version 1 that has a fields collection: its
\* index, or 0
FirstUsableMatch(shapes) ==
    IF \E i \in 1..Len(shapes) : shapes[i].version = 1 /\ shapes[i].has_fields
    THEN CHOOSE i \in 1..Len(shapes) :
             /\ shapes[i].version = 1 /\ shapes[i].has_fields
             /\ \A j \in 1..(i - 1) : ~(shapes[j].version = 1 /\ shapes[j].has_fields)
    ELSE 0

\* every fields collection of the schema is a usable one
EveryFieldsUsable ==
    \A i \in 1..Len(arg.shapes) :
        arg.shapes[i].has_fields => AllGood(FieldsOfDef(arg.fields, i))

\* C11 as stated: with a schema whose fields collections are all usable, the
\* resolver returns None exactly when no definition has the version or none
\* of them has a fields collection, and a definition of the version that has
\* a fields collection is found also behind one of the version that has
\* none.
C11_FirstUsableMatch ==
    (SchemaResolved /\ arg.loaded /\ EveryFieldsUsable)
    => /\ (res.out.builder = None) <=> (FirstUsableMatch(arg.shapes) = 0)
       /\ FirstUsableMatch(arg.shapes) # 0
            => res.out.builder
                 = Value(ConvertersOfFields(
                       FieldsOfDef(arg.fields, FirstUsableMatch(arg.shapes))))

\* C11 amended: the resolver looks at the first definition of the requested
\* version only. It returns None when there is no schema, when no
\* definition has the version, and when that first definition has no fields
\* collection, whatever the definitions after it hold; otherwise the result
\* comes from the fields of that definition alone: their converters when all
\* of them are usable, and no converter set when one is not or there is none.
C11_FirstMatchOnly ==
    SchemaResolved
    => /\ (~arg.loaded \/ FirstMatch(arg.shapes) = 0
              \/ ~arg.shapes[FirstMatch(arg.shapes)].has_fields)
            => res.out.builder = None
       /\ (HasSelected /\ AllGood(SelectedFields))
            => res.out.builder = Value(ConvertersOfFields(SelectedFields))
       /\ (HasSelected /\ ~AllGood(SelectedFields))
            => res.out.builder.kind # "value"

\* the resolver stopped at a definition of the version without fields, with
\* a usable definition of the version behind it
C11_Witness ==
    /\ SchemaResolved
    /\ arg.loaded
    /\ Len(arg.shapes) = 2
    /\ arg.shapes[1] = [version |-> 1, has_fields |-> FALSE]
    /\ arg.shapes[2] = [version |-> 1, has_fields |-> TRUE]
    /\ AllGood(FieldsOfDef(arg.fields, 2))
    /\ res.out.builder = None

-----------------------------------------------------------------------------
(* C12 *)

\* the stripped lines of the file
LinesOfFile(file) == _file_iterator(FileContent(file))

\* the columns of the header of the file
ColumnsOfFile(file) == Split(LinesOfFile(file)[1], "\t")

\* what the schema resolver returns for the table and version of the file
ResolvedFor(file) ==
    _build_value_from_rust_types__factory(
        schema, MetaTable(LinesOfFile(file)[2]), PyInt(MetaVersion(LinesOfFile(file)[2])))

\* The schema resolved for the file, its header has a column without a
\* converter in the resolved set, and the file has a row to encode.
RowUnderUnknownColumn(file) ==
    /\ HasHeader(file)
    /\ HasMarker(file)
    /\ ResolvedFor(file).kind = "value"
    /\ \E k \in 1..Len(ColumnsOfFile(file)) :
           ColumnsOfFile(file)[k] \notin DOMAIN ResolvedFor(file).value
    /\ DataLines(LinesOfFile(file)) # <<>>

\* C12: when the schema resolved, a file whose header has a column without
\* a converter in the resolved set fails at the encoding of its row with the
\* assertion error of the converter lookup: the conversion loop never passes
\* the file, its values are not rendered some other way, and no artifact is
\* written for it.
C12_MissingConverterAsserts ==
    /\ \A i \in 1..PassedCount : ~RowUnderUnknownColumn(files[i])
    /\ \A f \in FileIds : RowUnderUnknownColumn(f) => ~artifacts[f].exists
    /\ (/\ pc = "failed"
        /\ error \notin {"OSError: open", "OSError: write_text"}
        /\ RowUnderUnknownColumn(files[cur + 1]))
       => error = "AssertionError: wtf!?"

-----------------------------------------------------------------------------
(* C13 *)

\* the data lines of the file as they are written in it, the blank ones left
\* out
OriginalRows(file) ==
    LET rows == SubSeq(FileContent(file), 3, Len(FileContent(file)))
        RECURSIVE NonEmpty(_)
        NonEmpty(r) ==
            IF r = <<>> THEN <<>>
            ELSE IF Head(r) = <<>> THEN NonEmpty(Tail(r))
            ELSE <<Head(r)>> \o NonEmpty(Tail(r))
    IN  NonEmpty(rows)

\* the value builder of the file: the resolved converters, or the heuristic
BuilderFor(file) ==
    IF ResolvedFor(file).kind = "value" THEN ResolvedFor(file) ELSE None

\* the table whose records are built, one for every non-empty data line,
\* from the tab-separated fields of the line as it is written
AlignedTable(file) ==
    DumpLines(BuilderFor(file), map_columns, ColumnsOfFile(file), calculate_md5,
              OriginalRows(file))

\* every data line of the file has as many fields as the header has columns
SameArity(file) ==
    \A k \in 1..Len(OriginalRows(file)) :
        Len(Split(OriginalRows(file)[k], "\t")) = Len(ColumnsOfFile(file))

\* C13: stripping and splitting keep the fields aligned with the header:
\* for a file whose rows have the arity of the header, the table written
\* has one record for every non-empty data line, with one entry per header
\* column, the i-th built from the i-th tab-separated field of the line as
\* it is written, empty first and last fields included.
C13_FieldsAligned ==
    \A i \in 1..PassedCount :
        (HasHeader(files[i]) /\ HasMarker(files[i]) /\ SameArity(files[i]))
            => /\ OutcomeOf(files[i]) = AlignedTable(files[i])
               /\ artifacts[files[i]].exists

====
